---- MODULE Spec2Model ----
(***************************************************************************)
(* Model of the two DataFrame utilities of airbnb_analysis.py:             *)
(*   set_data_types(df)  (lines 17-66)  -- the "TypeOptimizer"             *)
(*   rename_columns(df)  (lines 69-105) -- the "ColumnNameNormalizer"      *)
(* together with the pandas / Python library calls they are made of.       *)
(*                                                                         *)
(* A DataFrame is a record [nrows, columns]; a column is a record          *)
(* [label, dtype, values, categories].  A label is a sequence of           *)
(* one-character strings.  DataFrames live in a heap of objects, so that   *)
(* "returns a new table" and "does not touch the caller's table" are       *)
(* statements about object references.                                     *)
(*                                                                         *)
(* An integer value v is kept as two limbs, v = hi * 2^16 + lo with        *)
(* 0 <= lo < 2^16, so that 64-bit values and the wrap-around of a          *)
(* narrowing cast are exact.  A float value is kept as a count of halves.  *)
(***************************************************************************)
EXTENDS Integers, Sequences, FiniteSets, TLC

VARIABLES heap, calls

vars == <<heap, calls>>

(***************************************************************************)
(* Bounds of the model.                                                    *)
(***************************************************************************)
MaxRows == 3
MaxCols == 2
MaxCalls == 2
MaxLabelLen == 3

(***************************************************************************)
(* Characters and Python's str methods used by rename_columns.             *)
(***************************************************************************)
LowerCase == <<"a","b","c","d","e","f","g","h","i","j","k","l","m",
               "n","o","p","q","r","s","t","u","v","w","x","y","z">>
UpperCase == <<"A","B","C","D","E","F","G","H","I","J","K","L","M",
               "N","O","P","Q","R","S","T","U","V","W","X","Y","Z">>

IndexOf(seq, x) == CHOOSE i \in 1..Len(seq) : seq[i] = x

islower(c) == \E i \in 1..Len(LowerCase) : LowerCase[i] = c
isupper(c) == \E i \in 1..Len(UpperCase) : UpperCase[i] = c
\* a cased character: one that has an upper and a lower form
iscased(c) == islower(c) \/ isupper(c)

tolower(c) == IF isupper(c) THEN LowerCase[IndexOf(UpperCase, c)] ELSE c
toupper(c) == IF islower(c) THEN UpperCase[IndexOf(LowerCase, c)] ELSE c

\* str.lower()
lower(s) == [i \in 1..Len(s) |-> tolower(s[i])]

\* str.title(): one pass with the flag previous_is_cased; a cased character
\* is upper-cased when the character before it is not cased, lower-cased
\* otherwise; an uncased character (digit, punctuation, space) is copied.
RECURSIVE title_loop(_, _, _, _)
title_loop(s, i, previous_is_cased, out) ==
    IF i > Len(s) THEN out
    ELSE IF iscased(s[i])
         THEN title_loop(s, i + 1, TRUE,
                         Append(out, IF previous_is_cased THEN tolower(s[i])
                                                          ELSE toupper(s[i])))
         ELSE title_loop(s, i + 1, FALSE, Append(out, s[i]))

title(s) == title_loop(s, 1, FALSE, <<>>)

\* str.replace(old, "") for a one-character old
replace(s, old) == SelectSeq(s, LAMBDA c : c # old)

\* line 95, the expression applied to one label, as the commented-out
\* variant of lines 97-103 would have it: strip first, title-case after
rename_label_strip_first(col) ==
    title(replace(replace(replace(col, "_"), " "), "."))

\* line 95 with the third replace left out
rename_label_no_period(col) ==
    replace(replace(title(lower(col)), "_"), " ")

\* line 95: col.lower().title().replace("_", "").replace(" ", "").replace(".", "")
rename_label(col) ==
    replace(replace(replace(title(lower(col)), "_"), " "), ".")

(***************************************************************************)
(* Integer values and numpy's integer casts.                               *)
(***************************************************************************)
Base == 256 * 256
Half == Base \div 2

IntV(h, l) == [hi |-> h, lo |-> l]
\* a value n with |n| < 2^16
FromSmall(n) == IF n < 0 THEN IntV(-1, Base + n) ELSE IntV(0, n)

Typecodes == <<8, 16, 32, 64>>

Bits(dtype) ==
    CASE dtype = "int8" -> 8 [] dtype = "int16" -> 16
      [] dtype = "int32" -> 32 [] dtype = "int64" -> 64
      [] dtype = "float16" -> 16 [] dtype = "float32" -> 32
      [] dtype = "float64" -> 64
      [] OTHER -> 0

IntDtype(w) ==
    CASE w = 8 -> "int8" [] w = 16 -> "int16" [] w = 32 -> "int32" [] OTHER -> "int64"

is_integer_dtype(dtype) == dtype \in {"int8", "int16", "int32", "int64"}
is_float_dtype(dtype) == dtype \in {"float16", "float32", "float64"}

\* ndarray.astype(intW): a narrowing cast keeps the low W bits (two's complement)
astype_int(v, w) ==
    CASE w = 8 -> LET b == v.lo % 256 IN FromSmall(IF b >= 128 THEN b - 256 ELSE b)
      [] w = 16 -> IntV(IF v.lo >= Half THEN -1 ELSE 0, v.lo)
      [] w = 32 -> IntV(((v.hi + Half) % Base) - Half, v.lo)
      [] OTHER -> v

(***************************************************************************)
(* pandas: maybe_downcast_numeric and to_numeric(downcast=...).            *)
(***************************************************************************)
\* maybe_downcast_numeric that casts without comparing the cast values
\* with the original ones
maybe_downcast_numeric_unchecked(col, w) ==
    IF Bits(col.dtype) <= w /\ Len(col.values) > 0 THEN col
    ELSE [col EXCEPT !.dtype = IntDtype(w),
                     !.values = [i \in 1..Len(col.values) |->
                                    astype_int(col.values[i], w)]]

\* maybe_downcast_numeric(result, dtype) for an integer target of w bits:
\*   same kind and not narrower, non-empty -> unchanged (no upcast);
\*   empty -> plain astype;
\*   else cast, and keep the cast only if every value compares equal.
maybe_downcast_numeric(col, w) ==
    IF Bits(col.dtype) <= w /\ Len(col.values) > 0 THEN col
    ELSE IF Len(col.values) = 0 THEN [col EXCEPT !.dtype = IntDtype(w)]
    ELSE LET new_result == [i \in 1..Len(col.values) |->
                               astype_int(col.values[i], w)]
         IN IF \A i \in 1..Len(col.values) : new_result[i] = col.values[i]
            THEN [col EXCEPT !.dtype = IntDtype(w), !.values = new_result]
            ELSE col

\* the loop of to_numeric over the integer typecodes, smallest first:
\* try each width not wider than the current one, stop at the first success
RECURSIVE downcast_loop(_, _)
downcast_loop(col, k) ==
    IF k > Len(Typecodes) THEN col
    ELSE LET w == Typecodes[k]
             r == IF w <= Bits(col.dtype) THEN maybe_downcast_numeric(col, w)
                                          ELSE col
         IN IF r.dtype = IntDtype(w) THEN r ELSE downcast_loop(r, k + 1)

\* the same loop run from the widest typecode down, over strictly narrower
\* widths: it stops at the first narrower width that holds the values
RECURSIVE downcast_loop_widest_first(_, _)
downcast_loop_widest_first(col, k) ==
    IF k < 1 THEN col
    ELSE LET w == Typecodes[k]
             r == IF w < Bits(col.dtype) THEN maybe_downcast_numeric(col, w)
                                         ELSE col
         IN IF r.dtype = IntDtype(w) /\ w < Bits(col.dtype) THEN r
            ELSE downcast_loop_widest_first(r, k - 1)

to_numeric_integer_widest_first(col) ==
    downcast_loop_widest_first(col, Len(Typecodes))

\* pd.to_numeric(temp, downcast='integer')
to_numeric_integer(col) == downcast_loop(col, 1)

\* pd.to_numeric(temp, downcast='float'): float32 is the narrowest width
\* tried; every float value of this model is exact in float32
to_numeric_float(col) ==
    IF col.dtype = "float64" THEN [col EXCEPT !.dtype = "float32"] ELSE col

(***************************************************************************)
(* pandas: nunique, astype('category'), select_dtypes, copy.               *)
(***************************************************************************)
\* the missing-value marker of a text column
NaN == "NaN"
\* the text values of the model, in sort order
TextOrder == <<"a", "b">>

\* Series.nunique(dropna=False): missing values count as one value
nunique(col) == Cardinality({col.values[i] : i \in 1..Len(col.values)})

\* Series.astype('category'): the sorted distinct non-missing values, and
\* per row the position of its value among them (-1 for a missing value)
astype_category(col) ==
    LET present == {col.values[i] : i \in 1..Len(col.values)} \ {NaN}
        cats == SelectSeq(TextOrder, LAMBDA s : s \in present)
    IN [col EXCEPT !.dtype = "category",
                   !.categories = cats,
                   !.values = [i \in 1..Len(col.values) |->
                                 IF col.values[i] = NaN THEN -1
                                 ELSE IndexOf(cats, col.values[i]) - 1]]

\* the logical values of a column
Decode(col) ==
    IF col.dtype = "category"
    THEN [i \in 1..Len(col.values) |->
            IF col.values[i] = -1 THEN NaN ELSE col.categories[col.values[i] + 1]]
    ELSE col.values

\* df.select_dtypes(include=...).columns: the labels of the columns whose
\* dtype is one of those the include list stands for
select_dtypes(df, dtypes) ==
    {df.columns[i].label : i \in {j \in 1..Len(df.columns) :
                                     df.columns[j].dtype \in dtypes}}

\* include=['object'], ['int'], ['float'] (pandas expands 'int' to int32 and
\* int64, 'float' to float64 and float32)
IncludeObject == {"object"}
IncludeInt == {"int32", "int64"}
IncludeFloat == {"float64", "float32"}

\* the comparison of line 52 with an integer (floor) division
below_half_floor(k, rows) == k < rows \div 2
\* the comparison of line 52 with <= for <
below_half_or_equal(k, rows) == 2 * k <= rows

\* line 52: nunique < shape[0] / 2, a true division
below_half(k, rows) == 2 * k < rows

\* lines 45-61 on the copy
set_data_types(df) ==
    LET object_columns == select_dtypes(df, IncludeObject)
        int_columns == select_dtypes(df, IncludeInt)
        float_columns == select_dtypes(df, IncludeFloat)
        conv(col) ==
            IF col.label \in object_columns
            THEN IF below_half(nunique(col), df.nrows)
                 THEN astype_category(col) ELSE col
            ELSE IF col.label \in int_columns
            THEN IF is_integer_dtype(col.dtype) THEN to_numeric_integer(col)
                 ELSE IF is_float_dtype(col.dtype) THEN to_numeric_float(col)
                 ELSE col
            ELSE col
    IN [df EXCEPT !.columns = [i \in 1..Len(df.columns) |-> conv(df.columns[i])]]

\* rename_columns that drops a column whose new label is already taken
rename_columns_dedup(df) ==
    LET renamed == [i \in 1..Len(df.columns) |->
                      [df.columns[i] EXCEPT !.label = rename_label(@)]]
        first(i) == \A j \in 1..(i - 1) : renamed[j].label # renamed[i].label
        keep == SelectSeq([i \in 1..Len(renamed) |-> i], LAMBDA i : first(i))
    IN [df EXCEPT !.columns = [j \in 1..Len(keep) |-> renamed[keep[j]]]]

\* line 95 on the copy: df.columns = [... for col in df.columns]
rename_columns(df) ==
    [df EXCEPT !.columns = [i \in 1..Len(df.columns) |->
                              [df.columns[i] EXCEPT !.label = rename_label(@)]]]

\* no copy: the name df keeps referring to the caller's object
copy_alias(h, ref) == [heap |-> h, ref |-> ref]

\* df.copy(): a new object with the same contents
copy(h, ref) == [heap |-> Append(h, h[ref]), ref |-> Len(h) + 1]

\* a Table's columns are identified by their labels
UniqueLabels(df) ==
    \A i, j \in 1..Len(df.columns) :
        df.columns[i].label = df.columns[j].label => i = j

(***************************************************************************)
(* The tables the model starts from.                                       *)
(***************************************************************************)
host_since == <<"h","o","s","t","_","s","i","n","c","e">>
Listing_ID == <<"L","i","s","t","i","n","g"," ","I","D">>
price_usd  == <<"p","r","i","c","e",".","u","s","d">>
review_date == <<"r","e","v","i","e","w"," ","d","a","t","e">>
a_b == <<"a","_","b">>
a_dot_b == <<"a",".","b">>
HostSince == <<"H","o","s","t","S","i","n","c","e">>
ListingId == <<"L","i","s","t","i","n","g","I","d">>
PriceUsd == <<"P","r","i","c","e","U","s","d">>

LabelPool == <<host_since, Listing_ID, price_usd, a_b, a_dot_b>>

\* the characters labels are enumerated over
Chars == {"a", "B", "1", "_", " ", ".", "-"}

TextVals == {"a", "b", NaN}
\* 127, 128, -128, -129, 32767, 32768, 2^31 - 1, 2^31: the values at the
\* edges of the 8, 16 and 32 bit ranges
IntVals == {IntV(0, 127), IntV(0, 128), FromSmall(-128), FromSmall(-129),
            IntV(0, Half - 1), IntV(0, Half), IntV(Half - 1, Base - 1), IntV(Half, 0)}
\* 1.5 and 70000.0, in halves
FloatVals == {3, 140000}

\* v is within the range of the signed w-bit integers
Fits(v, w) ==
    CASE w = 8 -> (v.hi = 0 /\ v.lo <= 127) \/ (v.hi = -1 /\ v.lo >= Base - 128)
      [] w = 16 -> (v.hi = 0 /\ v.lo < Half) \/ (v.hi = -1 /\ v.lo >= Half)
      [] w = 32 -> v.hi >= -Half /\ v.hi < Half
      [] OTHER -> TRUE

Col(l, d, v) == [label |-> l, dtype |-> d, values |-> v, categories |-> <<>>]

\* every column body of R rows over the sample values
Bodies(R) ==
    {<<"object", v>> : v \in [1..R -> TextVals]}
    \cup UNION {{<<d, v>> : v \in [1..R -> {x \in IntVals : Fits(x, Bits(d))}]}
                  : d \in {"int8", "int16", "int32", "int64"}}
    \cup UNION {{<<d, v>> : v \in [1..R -> FloatVals]} : d \in {"float32", "float64"}}
    \cup {<<"bool", [i \in 1..R |-> TRUE]>>}

\* columns filled with one repeated value
WideBodies(R) ==
    {<<"object", [i \in 1..R |-> "a"]>>,
     <<"int64", [i \in 1..R |-> IntV(0, 127)]>>,
     <<"float64", [i \in 1..R |-> 3]>>,
     <<"bool", [i \in 1..R |-> TRUE]>>}

Table(R, hdr, bodies) ==
    [nrows |-> R,
     columns |-> [i \in 1..Len(hdr) |-> Col(hdr[i], bodies[i][1], bodies[i][2])]]

NarrowTables ==
    {Table(rb[1], <<host_since>>, <<rb[2]>>) :
        rb \in UNION {{<<R, b>> : b \in Bodies(R)} : R \in 0..MaxRows}}

Headers(n) == {SubSeq(LabelPool, s, s + n - 1) : s \in 1..(Len(LabelPool) - n + 1)}

WideTables ==
    UNION {UNION {UNION {{Table(R, hdr, bs) : bs \in [1..n -> WideBodies(R)]}
                           : hdr \in Headers(n)}
                    : n \in 2..MaxCols}
             : R \in 0..MaxRows}

\* the two integer columns of the specification's downcast example
ExampleTables ==
    {Table(4, <<host_since>>,
           <<<<"int64", <<FromSmall(-120), IntV(0, 0), IntV(0, 5), IntV(0, 127)>>>>>>),
     Table(2, <<host_since>>, <<<<"int64", <<IntV(0, 0), IntV(0, 40000)>>>>>>)}

AllLabels ==
    UNION {[1..n -> Chars] : n \in 0..MaxLabelLen}
    \cup {host_since, Listing_ID, price_usd, review_date}

LabelTables == {Table(0, <<l>>, <<<<"object", <<>>>>>>) : l \in AllLabels}

(***************************************************************************)
(* The state machine: a heap of DataFrames, heap[1] the table read from    *)
(* the CSV file, and the log of the calls made so far, each with the       *)
(* reference passed, the reference returned and the argument's contents    *)
(* at the time of the call.                                                *)
(***************************************************************************)
Init ==
    /\ heap \in {<<t>> : t \in NarrowTables \cup WideTables \cup ExampleTables}
    /\ calls = <<>>

InitLabels ==
    /\ heap \in {<<t>> : t \in LabelTables}
    /\ calls = <<>>

\* listings_sm = set_data_types(listings_paris)
Call_set_data_types(arg) ==
    /\ Len(calls) < MaxCalls
    /\ UniqueLabels(heap[arg])
    /\ LET c == copy(heap, arg)
       IN /\ heap' = [c.heap EXCEPT ![c.ref] = set_data_types(c.heap[c.ref])]
          /\ calls' = Append(calls, [op |-> "set_data_types", arg |-> arg,
                                     res |-> c.ref, before |-> heap[arg]])

\* listings_clean = rename_columns(listings_sm)
Call_rename_columns(arg) ==
    /\ Len(calls) < MaxCalls
    /\ LET c == copy(heap, arg)
       IN /\ heap' = [c.heap EXCEPT ![c.ref] = rename_columns(c.heap[c.ref])]
          /\ calls' = Append(calls, [op |-> "rename_columns", arg |-> arg,
                                     res |-> c.ref, before |-> heap[arg]])

Optimize == \E arg \in 1..Len(heap) : Call_set_data_types(arg)

Normalize == \E arg \in 1..Len(heap) : Call_rename_columns(arg)

Next == Optimize \/ Normalize

Spec == Init /\ [][Next]_vars

SpecLabels == InitLabels /\ [][Next]_vars

(***************************************************************************)
(* Vocabulary of the properties.                                           *)
(***************************************************************************)
CallIds == 1..Len(calls)
OptCalls == {c \in CallIds : calls[c].op = "set_data_types"}
RenCalls == {c \in CallIds : calls[c].op = "rename_columns"}
\* the argument as it was when call c was made, and the table call c returned
Before(c) == calls[c].before
After(c) == heap[calls[c].res]

NCols(df) == Len(df.columns)
SameShape(x, y) == x.nrows = y.nrows /\ NCols(x) = NCols(y)
Distinct(col) == {col.values[i] : i \in 1..Len(col.values)}

\* order of the integer values
Less(u, v) == u.hi < v.hi \/ (u.hi = v.hi /\ u.lo < v.lo)
ColMin(col) == CHOOSE m \in Distinct(col) : \A v \in Distinct(col) : ~Less(v, m)
ColMax(col) == CHOOSE m \in Distinct(col) : \A v \in Distinct(col) : ~Less(m, v)
\* the narrowest signed width whose range covers [min, max] of the column
SmallestIntWidth(col) ==
    CHOOSE w \in {8, 16, 32, 64} :
        /\ Fits(ColMin(col), w) /\ Fits(ColMax(col), w)
        /\ \A n \in {8, 16, 32, 64} :
              n < w => ~(Fits(ColMin(col), n) /\ Fits(ColMax(col), n))

\* the largest finite float16 is 65504; values are counted in halves
Float16Max == 2 * 65504
FloatCovers(v, w) == w >= 32 \/ (v >= -Float16Max /\ v <= Float16Max)
SmallestFloatWidth(col) ==
    IF \A v \in Distinct(col) : FloatCovers(v, 16) THEN 16 ELSE 32
FloatDtype(w) == IF w = 16 THEN "float16" ELSE "float32"

Separators == {"_", " ", "."}
isdigit(c) == c \in {"0", "1", "2", "3", "4", "5", "6", "7", "8", "9"}
\* whitespace or punctuation: neither a letter nor a digit
isdelim(c) == ~iscased(c) /\ ~isdigit(c)
\* the positions of s that survive the removal of the separators, in order
KeptPositions(s) == SelectSeq([i \in 1..Len(s) |-> i], LAMBDA i : s[i] \notin Separators)

\* the label written with, at every kept position, the character f(s, i)
Rewritten(s, f(_, _)) ==
    LET kept == KeptPositions(s) IN [j \in 1..Len(kept) |-> f(s, kept[j])]

\* a letter is upper case iff it starts a run of letters
LetterRunCase(s, i) ==
    IF iscased(s[i])
    THEN IF i = 1 \/ ~iscased(s[i - 1]) THEN toupper(s[i]) ELSE tolower(s[i])
    ELSE s[i]

\* a letter is upper case iff it is the first letter of a word delimited by
\* whitespace or punctuation
DelimitedWordCase(s, i) ==
    IF iscased(s[i])
    THEN IF \E j \in 1..(i - 1) :
               iscased(s[j]) /\ \A k \in j..i : ~isdelim(s[k])
         THEN tolower(s[i]) ELSE toupper(s[i])
    ELSE s[i]

LabelExamples(in, out) ==
    /\ in = host_since => out = HostSince
    /\ in = Listing_ID => out = ListingId
    /\ in = price_usd => out = PriceUsd
    /\ in = <<>> => out = <<>>

(***************************************************************************)
(* C1: for every text (object) column with k distinct values, the missing  *)
(* values counting as one, in a table of R rows, set_data_types returns    *)
(* the column as categorical iff k < R/2 (real division, i.e. 2k < R), and *)
(* as text otherwise.                                                      *)
(***************************************************************************)
C1_CategoricalThreshold ==
    \A c \in OptCalls :
        /\ NCols(After(c)) = NCols(Before(c))
        /\ \A i \in 1..NCols(Before(c)) :
              LET b == Before(c).columns[i]
                  k == Cardinality(Distinct(b))
              IN b.dtype = "object" =>
                    After(c).columns[i].dtype =
                        IF 2 * k < Before(c).nrows THEN "category" ELSE "object"

\* a text column with a missing value and k < R/2, but not k < floor(R/2),
\* came back categorical
C1_Witness ==
    \E c \in OptCalls : \E i \in 1..NCols(Before(c)) :
          LET b == Before(c).columns[i]
              k == Cardinality(Distinct(b))
          IN /\ b.dtype = "object" /\ NaN \in Distinct(b)
             /\ 2 * k < Before(c).nrows /\ ~(k < Before(c).nrows \div 2)
             /\ After(c).columns[i].dtype = "category"

(***************************************************************************)
(* C2: every integer column of a non-empty input table, whatever its       *)
(* current bit width, comes back from set_data_types in the smallest of    *)
(* the signed 8, 16, 32 and 64 bit kinds whose range covers [min, max] of  *)
(* its values.                                                             *)
(***************************************************************************)
C2_SmallestCoveringInt ==
    \A c \in OptCalls :
        \A i \in 1..NCols(Before(c)) :
            LET b == Before(c).columns[i]
            IN (is_integer_dtype(b.dtype) /\ Before(c).nrows > 0) =>
                  After(c).columns[i].dtype = IntDtype(SmallestIntWidth(b))

(***************************************************************************)
(* C3: every float column comes back from set_data_types in the smallest   *)
(* float width (16 or 32 bits) that covers its values; it is never         *)
(* returned at 64 bits when a narrower width covers them.                  *)
(***************************************************************************)
C3_SmallestCoveringFloat ==
    \A c \in OptCalls :
        \A i \in 1..NCols(Before(c)) :
            LET b == Before(c).columns[i]
            IN is_float_dtype(b.dtype) =>
                  After(c).columns[i].dtype = FloatDtype(SmallestFloatWidth(b))

(***************************************************************************)
(* C4 as stated: rename_columns lower-cases the label, capitalises the     *)
(* first letter of each word delimited by whitespace or punctuation and    *)
(* removes every underscore, space and period; only letters that start     *)
(* such a word are upper case in the result.                               *)
(***************************************************************************)
C4_DelimitedWords ==
    \A c \in RenCalls :
        /\ NCols(After(c)) = NCols(Before(c))
        /\ \A i \in 1..NCols(Before(c)) :
              LET in == Before(c).columns[i].label
                  out == After(c).columns[i].label
              IN /\ out = Rewritten(in, DelimitedWordCase)
                 /\ LabelExamples(in, out)

(***************************************************************************)
(* C4 amended: the words are the maximal runs of letters: every character  *)
(* that is not a letter, a digit included, ends a word.  The result is the *)
(* label without its underscores, spaces and periods, each letter upper    *)
(* case iff it is the first of a run of letters of the original label,     *)
(* every other character unchanged; the four examples hold.                *)
(***************************************************************************)
C4_LetterRuns ==
    \A c \in RenCalls :
        /\ NCols(After(c)) = NCols(Before(c))
        /\ \A i \in 1..NCols(Before(c)) :
              LET in == Before(c).columns[i].label
                  out == After(c).columns[i].label
              IN /\ out = Rewritten(in, LetterRunCase)
                 /\ \A k \in 1..Len(out) : out[k] \notin Separators
                 /\ LabelExamples(in, out)

\* a label in which a letter follows a digit has been renamed
C4_Witness ==
    \E c \in RenCalls :
        /\ Before(c).columns[1].label = <<"a", "1", "a">>
        /\ After(c).columns[1].label = <<"A", "1", "A">>

(***************************************************************************)
(* C5: set_data_types is idempotent: applied to a table it returned, it    *)
(* returns a table with the same storage kind for every column and the     *)
(* same values.                                                            *)
(***************************************************************************)
SameKindsAndValues(x, y) ==
    /\ SameShape(x, y)
    /\ \A i \in 1..NCols(x) :
          /\ x.columns[i].dtype = y.columns[i].dtype
          /\ x.columns[i].label = y.columns[i].label
          /\ Decode(x.columns[i]) = Decode(y.columns[i])

C5_Idempotent ==
    \A c1, c2 \in OptCalls :
        (c1 < c2 /\ calls[c2].arg = calls[c1].res) =>
            SameKindsAndValues(After(c2), After(c1))

\* set_data_types was applied to its own result, and the first application
\* had changed a storage kind
C5_Witness ==
    \E c1, c2 \in OptCalls :
        /\ c1 < c2 /\ calls[c2].arg = calls[c1].res
        /\ \E i \in 1..NCols(Before(c1)) :
              /\ Before(c1).columns[i].dtype = "int64"
              /\ After(c1).columns[i].dtype = "int8"

(***************************************************************************)
(* C6: set_data_types preserves every value: in every column and row the   *)
(* logical value of the result (the decoded category, the converted        *)
(* number) equals the value of the input.                                  *)
(***************************************************************************)
C6_ValuesPreserved ==
    \A c \in OptCalls :
        /\ NCols(After(c)) = NCols(Before(c))
        /\ \A i \in 1..NCols(Before(c)) :
              /\ Len(After(c).columns[i].values) = Len(Before(c).columns[i].values)
              /\ Decode(After(c).columns[i]) = Decode(Before(c).columns[i])

\* a 64-bit integer column was narrowed to 32 bits, a narrower cast of one
\* of its rows being refused because it would have changed the value
C6_Witness ==
    \E c \in OptCalls : \E i \in 1..NCols(Before(c)) :
        /\ Before(c).columns[i].dtype = "int64"
        /\ After(c).columns[i].dtype = "int32"
        /\ \E r \in 1..Before(c).nrows :
              /\ Before(c).columns[i].values[r] = IntV(0, 40000)
              /\ astype_int(Before(c).columns[i].values[r], 16) # IntV(0, 40000)

(***************************************************************************)
(* C7: neither function mutates the table passed in: after any sequence of *)
(* calls, every call's argument still has the labels, kinds and values it  *)
(* had when the call was made, and the table returned is another object.   *)
(***************************************************************************)
C7_InputUntouched ==
    \A c \in CallIds :
        /\ heap[calls[c].arg] = Before(c)
        /\ calls[c].res # calls[c].arg

\* the script's pipeline raw -> set_data_types -> rename_columns has run and
\* each step returned a table that differs from its argument
C7_Witness ==
    \E c1 \in OptCalls : \E c2 \in RenCalls :
        /\ calls[c1].arg = 1 /\ calls[c2].arg = calls[c1].res
        /\ After(c1) # Before(c1)
        /\ After(c2) # Before(c2)

(***************************************************************************)
(* C8: both functions return a table with the row count, the column count  *)
(* and the column order of the input; rename_columns moreover leaves every *)
(* column's data and storage kind unchanged, and the label it gives a      *)
(* column depends on that column's own label only.                         *)
(***************************************************************************)
C8_ShapePreserved ==
    /\ \A c \in CallIds :
          /\ SameShape(After(c), Before(c))
          /\ \A i \in 1..NCols(Before(c)) :
                Len(After(c).columns[i].values) = Before(c).nrows
    /\ \A c \in OptCalls :
          NCols(After(c)) = NCols(Before(c)) =>
              \A i \in 1..NCols(Before(c)) :
                  After(c).columns[i].label = Before(c).columns[i].label
    /\ \A c \in RenCalls :
          NCols(After(c)) = NCols(Before(c)) =>
              \A i \in 1..NCols(Before(c)) :
                  [After(c).columns[i] EXCEPT !.label = <<>>]
                      = [Before(c).columns[i] EXCEPT !.label = <<>>]
    /\ \A c, d \in RenCalls :
          (NCols(After(c)) = NCols(Before(c)) /\ NCols(After(d)) = NCols(Before(d))) =>
              \A i \in 1..NCols(Before(c)) : \A j \in 1..NCols(Before(d)) :
                  Before(c).columns[i].label = Before(d).columns[j].label
                      => After(c).columns[i].label = After(d).columns[j].label

\* a table of several columns and rows went through both functions, and the
\* renaming gave two columns the same label
C8_Witness ==
    \E c \in OptCalls : \E d \in RenCalls :
        /\ NCols(Before(c)) >= 2 /\ Before(c).nrows >= 2
        /\ NCols(Before(d)) >= 2 /\ Before(d).nrows >= 2
        /\ After(c) # Before(c)
        /\ After(d).columns[1].label = After(d).columns[2].label

(***************************************************************************)
(* C9 as stated: set_data_types returns, for a zero-row table, a zero-row  *)
(* table in which every column keeps its storage kind.                     *)
(***************************************************************************)
C9_EmptyKeepsKinds ==
    \A c \in OptCalls :
        Before(c).nrows = 0 =>
            /\ After(c).nrows = 0
            /\ \A i \in 1..NCols(Before(c)) :
                  After(c).columns[i].dtype = Before(c).columns[i].dtype

(***************************************************************************)
(* C9 amended: set_data_types returns, for a zero-row table, a zero-row    *)
(* table in which every text column stays text and every column keeps its  *)
(* storage kind, except that a 32- or 64-bit integer column comes back as  *)
(* 8-bit.                                                                  *)
(***************************************************************************)
C9_EmptyTable ==
    \A c \in OptCalls :
        Before(c).nrows = 0 =>
            /\ SameShape(After(c), Before(c))
            /\ \A i \in 1..NCols(Before(c)) :
                  /\ After(c).columns[i].values = <<>>
                  /\ After(c).columns[i].dtype =
                        IF Before(c).columns[i].dtype \in {"int32", "int64"}
                        THEN "int8" ELSE Before(c).columns[i].dtype

\* a zero-row table with a text column and a 64-bit integer column went
\* through set_data_types
C9_Witness ==
    \E c \in OptCalls :
        /\ Before(c).nrows = 0
        /\ \E i, j \in 1..NCols(Before(c)) :
              /\ Before(c).columns[i].dtype = "object"
              /\ After(c).columns[i].dtype = "object"
              /\ Before(c).columns[j].dtype = "int64"
              /\ After(c).columns[j].dtype = "int8"

(***************************************************************************)
(* C10 as stated: rename_columns maps every label to a string, and a label *)
(* that is empty or made only of punctuation and whitespace to the empty   *)
(* string.                                                                 *)
(***************************************************************************)
C10_PunctuationToEmpty ==
    \A c \in RenCalls :
        \A i \in 1..NCols(Before(c)) :
            (\A k \in 1..Len(Before(c).columns[i].label) :
                isdelim(Before(c).columns[i].label[k]))
                => After(c).columns[i].label = <<>>

(***************************************************************************)
(* C10 amended: rename_columns maps every label to a string made of the    *)
(* label's characters (up to case), and a label that is empty or made only *)
(* of underscores, spaces and periods to the empty string; any other       *)
(* punctuation or whitespace character is kept.                            *)
(***************************************************************************)
C10_SeparatorsToEmpty ==
    \A c \in RenCalls :
        /\ NCols(After(c)) = NCols(Before(c))
        /\ \A i \in 1..NCols(Before(c)) :
              LET in == Before(c).columns[i].label
                  out == After(c).columns[i].label
              IN /\ \A k \in 1..Len(out) :
                        \E j \in 1..Len(in) : tolower(out[k]) = tolower(in[j])
                 /\ (\A k \in 1..Len(in) : in[k] \in Separators) <=> out = <<>>

\* a non-empty label made of separators only has been renamed
C10_Witness ==
    \E c \in RenCalls :
        /\ Before(c).columns[1].label = <<"_", ".", " ">>
        /\ After(c).columns[1].label = <<>>

====
